---- MODULE Spec2Model ----
(***************************************************************************)
(* Model of mm.c: a segregated-free-list allocator with boundary tags.     *)
(*                                                                         *)
(* Machine model (LP64).  Memory is a sparse map from 4-byte-aligned       *)
(* addresses to 32-bit words; an address that was never written is         *)
(* uninitialised and reads as an arbitrary word (junk).  A 32-bit word w   *)
(* is held as its two's-complement representative in -2^31 .. 2^31-1, so   *)
(* truncation to 32 bits is the identity on representatives, an unsigned   *)
(* word with the top bit set is a negative representative, and unsigned    *)
(* comparison is ULt below.  A 64-bit pointer is a pair <<k, o>> standing  *)
(* for k * 2^32 + o (mod 2^64) with o a representative as above: adding a  *)
(* zero-extended uint32 with the top bit set carries into k.               *)
(***************************************************************************)
EXTENDS Integers, Sequences, FiniteSets, TLC

\* ---- bounds of the model ----
MaxOps == 3          \* public calls after mm_init in one run
MaxListOps == 7      \* the same in the runs of allocate and free alone
LifoBlocks == 10     \* allocations in the run of the spec's example

\* ---- program constants (mm.c:50-53) ----
WSIZE == 4
DSIZE == 8
CHUNKSIZE == 65536
OVERHEAD == 8
NCLASSES == 7

\* ---- host region (memlib, outside mm.c) ----
HeapLo == 8 * 512
Capacities == {0, 56, 72, 72 + CHUNKSIZE, 72 + 4 * CHUNKSIZE}
Sizes == {8, 1000, 65528, 100000}
Junk == {0, 17}
DataVals == {7}
ListSizes == {100, 20000}

\* ---- pointers ----
P(o) == <<0, o>>
NULL == <<0, 0>>
SbrkFail == <<0, -1>>
PAddS(p, s) == <<p[1], p[2] + s>>
PAddU(p, u) == <<p[1] + (IF u >= 0 THEN 0 ELSE 1), p[2] + u>>
PSubU(p, u) == <<p[1] - (IF u >= 0 THEN 0 ELSE 1), p[2] - u>>
PDiff(p, q) == p[2] - q[2]
ULt(a, b) == IF (a >= 0) = (b >= 0) THEN a < b ELSE a >= 0
ULe(a, b) == a = b \/ ULt(a, b)

\* a size_t is a pair <<k, o>> like a pointer; SZ(n) is the size_t n < 2^31
SZ(n) == <<0, n>>
\* (int)(a - b): the low 32 bits of the difference of two words, computed
\* without leaving the range of the representatives
Half == 1073741824
Sub32(a, b) ==
    IF (a >= 0) = (b >= 0) THEN a - b
    ELSE IF a >= 0
         THEN IF a >= (b + Half) + Half
              THEN ((a - ((b + Half) + Half)) - Half) - Half
              ELSE ((a - ((b + Half) + Half)) + Half) + Half
         ELSE IF b > (a + Half) + Half
              THEN ((((a + Half) + Half) - b) + Half) + Half
              ELSE ((((a + Half) + Half) - b) - Half) - Half

MIN(x, y) == IF ULt(y, x) THEN y ELSE x
PACK(size, alloc) == (size - (size % 2)) + (IF size % 2 = 1 \/ alloc = 1 THEN 1 ELSE 0)

\* ---- the allocator's view of the machine: h is a record ----
\*   mem, cls (the seven slots at ptr_classes), brk, cap, ptr_classes,
\*   heap_listp, wild (a store outside [HeapLo, brk) happened), junk
InRegion(h, p, n) == p[1] = 0 /\ p[2] >= HeapLo /\ p[2] + n <= h.brk

GET(h, p) == IF p \in DOMAIN h.mem THEN h.mem[p] ELSE h.junk
PUT(h, p, val) ==
    [h EXCEPT !.mem = [a \in (DOMAIN h.mem) \cup {p} |-> IF a = p THEN val ELSE h.mem[a]],
              !.wild = @ \/ ~InRegion(h, p, WSIZE)]

GET_SIZE(h, p) == 8 * (GET(h, p) \div 8)
GET_ALLOC(h, p) == GET(h, p) % 2

HDRP(bp) == PAddS(bp, -WSIZE)
FTRP(h, bp) == PAddU(bp, GET_SIZE(h, HDRP(bp)) - DSIZE)
NEXT_BLKP(h, bp) == PAddU(bp, GET_SIZE(h, PAddS(bp, -WSIZE)))
PREV_BLKP(h, bp) == PSubU(bp, GET_SIZE(h, PAddS(bp, -DSIZE)))

GET_I(h, p) == GET(h, p)
SUCC(h, bp) == PAddS(bp, GET_I(h, PAddS(bp, WSIZE)))
PRED(h, bp) == PAddS(bp, GET_I(h, bp))

\* ptr_classes[i] as an rvalue and as an lvalue
CLS(h, i) == h.cls[i]
SETCLS(h, i, p) ==
    [h EXCEPT !.cls[i] = p,
              !.wild = @ \/ ~InRegion(h, PAddS(h.ptr_classes, DSIZE * i), DSIZE)]

\* host primitive: grow the region by incr bytes, or refuse
mem_sbrk(h, incr) ==
    IF incr < 0 \/ h.brk + incr > HeapLo + h.cap
    THEN [h |-> h, r |-> SbrkFail]
    ELSE [h |-> [h EXCEPT !.brk = @ + incr], r |-> P(h.brk)]

\* bucket chosen by the if/else-if chains of delete_from_class and
\* append_to_class (signed int comparisons)
ClassOf(size) ==
    IF size <= 512 THEN 0
    ELSE IF size <= 1024 THEN 1
    ELSE IF size <= 2048 THEN 2
    ELSE IF size <= 4096 THEN 3
    ELSE IF size <= 8192 THEN 4
    ELSE IF size <= 16384 THEN 5
    ELSE 6

\* asize <= n for a size_t asize and a constant 0 <= n < 2^31
SzLe(asize, n) == asize[1] = 0 /\ ULe(asize[2], n)

\* bucket chosen by find_fit (size_t, unsigned comparisons)
FitClassOf(asize) ==
    IF SzLe(asize, 512) THEN 0
    ELSE IF SzLe(asize, 1024) THEN 1
    ELSE IF SzLe(asize, 2048) THEN 2
    ELSE IF SzLe(asize, 4096) THEN 3
    ELSE IF SzLe(asize, 8192) THEN 4
    ELSE IF SzLe(asize, 16384) THEN 5
    ELSE 6

\* sequencing: With([x \in {v} |-> e]) is e with x bound to v, the value
\* left by the statements executed so far
One(S) == CHOOSE x \in S : TRUE
With(f) == One(UNION {{g[x] : x \in DOMAIN g} : g \in {f}})

\* append_to_class forgetting the former members of the bucket
append_to_class_Drop(h, bp, size) ==
    With([c \in {ClassOf(size)} |->
    With([h1 \in {PUT(h, bp, 0)} |->
    With([h2 \in {PUT(h1, PAddS(bp, 4), 0)} |->
    SETCLS(h2, c, bp)])])])

append_to_class(h, bp, size) ==
    With([c \in {ClassOf(size)} |->
    With([h1 \in {PUT(h, bp, 0)} |->
    IF CLS(h1, c) # NULL
    THEN With([h2 \in {PUT(h1, PAddS(bp, 4), PDiff(CLS(h1, c), bp))} |->
         With([h3 \in {PUT(h2, CLS(h2, c), PDiff(bp, CLS(h2, c)))} |->
         SETCLS(h3, c, bp)])])
    ELSE With([h2 \in {PUT(h1, PAddS(bp, 4), 0)} |->
         SETCLS(h2, c, bp)])])])

\* the branch of delete_from_class for the bucket c of ptr
Unlink(h, ptr, c) ==
    IF ptr = CLS(h, c)
    THEN SETCLS(h, c, IF GET(h, PAddS(ptr, 4)) = 0 THEN NULL ELSE SUCC(h, ptr))
    ELSE IF GET(h, PAddS(ptr, 4)) = 0
         THEN PUT(h, PAddS(PRED(h, ptr), 4), 0)
         ELSE With([h1 \in {PUT(h, PAddS(PRED(h, ptr), 4),
                                PDiff(SUCC(h, ptr), PRED(h, ptr)))} |->
              PUT(h1, SUCC(h1, ptr), PDiff(PRED(h1, ptr), SUCC(h1, ptr)))])

\* delete_from_class leaving the lists as they are
delete_from_class_Keep(h, bp, prev) == h

delete_from_class(h, bp, prev) ==
    With([ptr \in {CASE prev = 0 -> NEXT_BLKP(h, bp)
                     [] prev = 1 -> PREV_BLKP(h, bp)
                     [] OTHER -> bp} |->
    Unlink(h, ptr, ClassOf(GET_SIZE(h, HDRP(ptr))))])

\* coalesce without the merge cases
coalesce_NoMerge(h, bp) ==
    [h |-> append_to_class(h, bp, GET_SIZE(h, HDRP(bp))), r |-> bp]

\* the four cases of coalesce, size being the size of bp on entry
coalesce1(h, bp, size) ==
    [h |-> append_to_class(h, bp, size), r |-> bp]

\* case 2 of coalesce filing the merged block under the size before the merge
coalesce2_OldSize(h, bp, size) ==
    With([sz \in {size + GET_SIZE(h, HDRP(NEXT_BLKP(h, bp)))} |->
    With([h1 \in {delete_from_class(h, bp, 0)} |->
    With([h2 \in {PUT(h1, HDRP(bp), PACK(sz, 0))} |->
    With([h3 \in {PUT(h2, FTRP(h2, bp), PACK(sz, 0))} |->
    [h |-> append_to_class(h3, bp, size), r |-> bp]])])])])

coalesce2(h, bp, size) ==
    With([sz \in {size + GET_SIZE(h, HDRP(NEXT_BLKP(h, bp)))} |->
    With([h1 \in {delete_from_class(h, bp, 0)} |->
    With([h2 \in {PUT(h1, HDRP(bp), PACK(sz, 0))} |->
    With([h3 \in {PUT(h2, FTRP(h2, bp), PACK(sz, 0))} |->
    [h |-> append_to_class(h3, bp, sz), r |-> bp]])])])])

coalesce3(h, bp, size) ==
    With([sz \in {size + GET_SIZE(h, HDRP(PREV_BLKP(h, bp)))} |->
    With([h1 \in {delete_from_class(h, bp, 1)} |->
    With([h2 \in {PUT(h1, FTRP(h1, bp), PACK(sz, 0))} |->
    With([h3 \in {PUT(h2, HDRP(PREV_BLKP(h2, bp)), PACK(sz, 0))} |->
    With([nbp \in {PREV_BLKP(h3, bp)} |->
    [h |-> append_to_class(h3, nbp, sz), r |-> nbp]])])])])])

coalesce4(h, bp, size) ==
    With([sz \in {size + GET_SIZE(h, HDRP(PREV_BLKP(h, bp)))
                      + GET_SIZE(h, FTRP(h, NEXT_BLKP(h, bp)))} |->
    With([h1 \in {delete_from_class(h, bp, 1)} |->
    With([h2 \in {delete_from_class(h1, bp, 0)} |->
    With([h3 \in {PUT(h2, HDRP(PREV_BLKP(h2, bp)), PACK(sz, 0))} |->
    With([h4 \in {PUT(h3, FTRP(h3, NEXT_BLKP(h3, bp)), PACK(sz, 0))} |->
    With([nbp \in {PREV_BLKP(h4, bp)} |->
    [h |-> append_to_class(h4, nbp, sz), r |-> nbp]])])])])])])

coalesce(h, bp) ==
    With([prev_alloc \in {GET_ALLOC(h, FTRP(h, PREV_BLKP(h, bp)))} |->
    With([next_alloc \in {GET_ALLOC(h, HDRP(NEXT_BLKP(h, bp)))} |->
    With([size \in {GET_SIZE(h, HDRP(bp))} |->
    IF prev_alloc # 0 /\ next_alloc # 0 THEN coalesce1(h, bp, size)
    ELSE IF prev_alloc # 0 /\ next_alloc = 0 THEN coalesce2(h, bp, size)
    ELSE IF prev_alloc = 0 /\ next_alloc # 0 THEN coalesce3(h, bp, size)
    ELSE coalesce4(h, bp, size)])])])

\* the stores of extend_heap after a successful mem_sbrk
NewBlock(h, bp, size) ==
    With([h1 \in {PUT(h, HDRP(bp), PACK(size, 0))} |->
    With([h2 \in {PUT(h1, FTRP(h1, bp), PACK(size, 0))} |->
    With([h3 \in {PUT(h2, HDRP(NEXT_BLKP(h2, bp)), PACK(0, 1))} |->
    coalesce(h3, bp)])])])

\* extend_heap storing the header before it looks at mem_sbrk's result
extend_heap_StoreFirst(h, words) ==
    With([size \in {IF words % 2 = 1 THEN (words + 1) * WSIZE ELSE words * WSIZE} |->
    With([s \in {mem_sbrk(h, size)} |->
    IF s.r = SbrkFail
    THEN [h |-> PUT(s.h, HDRP(s.r), PACK(size, 0)), r |-> NULL]
    ELSE NewBlock(s.h, s.r, size)])])

extend_heap(h, words) ==
    With([size \in {IF words % 2 = 1 THEN (words + 1) * WSIZE ELSE words * WSIZE} |->
    With([s \in {mem_sbrk(h, size)} |->
    IF s.r = SbrkFail
    THEN [h |-> s.h, r |-> NULL]
    ELSE NewBlock(s.h, s.r, size)])])

\* the split branch of place
Split(h, bp, asize, diff) ==
    With([h2 \in {PUT(h, HDRP(bp), PACK(asize, 1))} |->
    With([h3 \in {PUT(h2, FTRP(h2, bp), PACK(asize, 1))} |->
    With([nbp \in {NEXT_BLKP(h3, bp)} |->
    With([h4 \in {PUT(h3, HDRP(nbp), PACK(diff, 0))} |->
    With([h5 \in {PUT(h4, FTRP(h4, nbp), PACK(diff, 0))} |->
    append_to_class(h5, nbp, diff)])])])])])

\* place that never splits
place_NoSplit(h, bp, asize) ==
    With([csize \in {GET_SIZE(h, HDRP(bp))} |->
    With([h1 \in {delete_from_class(h, bp, 2)} |->
    With([h2 \in {PUT(h1, HDRP(bp), PACK(csize, 1))} |->
    PUT(h2, FTRP(h2, bp), PACK(csize, 1))])])])

\* csize - asize is computed in size_t: it is at least 16 as an unsigned
\* number when the difference is negative (wrapped) or when csize, zero
\* extended, has its top bit set
place(h, bp, asize) ==
    With([csize \in {GET_SIZE(h, HDRP(bp))} |->
    With([h1 \in {delete_from_class(h, bp, 2)} |->
    IF csize < 0 \/ csize - asize < 0 \/ csize - asize >= DSIZE + OVERHEAD
    THEN Split(h1, bp, asize, csize - asize)
    ELSE With([h2 \in {PUT(h1, HDRP(bp), PACK(csize, 1))} |->
         PUT(h2, FTRP(h2, bp), PACK(csize, 1))])])])

\* the loop of one branch of find_fit, from slot i up to slot 6; the test
\* is (int)(GET_SIZE(..) - asize) >= 0 with asize a size_t
RECURSIVE FitScan(_, _, _)
FitScan(h, asize, i) ==
    IF CLS(h, i) # NULL /\ Sub32(GET_SIZE(h, HDRP(CLS(h, i))), asize[2]) >= 0
    THEN CLS(h, i)
    ELSE IF i = NCLASSES - 1 THEN NULL ELSE FitScan(h, asize, i + 1)

find_fit(h, asize) == FitScan(h, asize, FitClassOf(asize))

AdjustedSize(size) ==
    IF size <= DSIZE THEN DSIZE + OVERHEAD
    ELSE DSIZE * ((size + OVERHEAD + (DSIZE - 1)) \div DSIZE)

\* mm_malloc after the fit search missed
NoFit(h, asize) ==
    With([e \in {extend_heap(h, MIN(asize, CHUNKSIZE) \div WSIZE)} |->
    IF e.r = NULL
    THEN [h |-> e.h, r |-> NULL]
    ELSE [h |-> place(e.h, e.r, asize), r |-> e.r]])

mm_malloc(h, size) ==
    IF size = 0 THEN [h |-> h, r |-> NULL]
    ELSE With([asize \in {AdjustedSize(size)} |->
         With([bp \in {find_fit(h, SZ(asize))} |->
         IF bp # NULL
         THEN [h |-> place(h, bp, asize), r |-> bp]
         ELSE NoFit(h, asize)])])

mm_free(h, bp) ==
    With([size \in {GET_SIZE(h, HDRP(bp))} |->
    With([h1 \in {PUT(h, HDRP(bp), PACK(size, 0))} |->
    With([h2 \in {PUT(h1, FTRP(h1, bp), PACK(size, 0))} |->
    coalesce(h2, bp).h])])])

\* memcpy over whole words (every size in Sizes is a multiple of 4); a
\* source word that was never written leaves its destination uninitialised
memcpy(h, dst, src, n) ==
    LET inSrc(a) == a[1] = src[1] /\ a[2] >= src[2] /\ a[2] < src[2] + n
        inDst(a) == a[1] = dst[1] /\ a[2] >= dst[2] /\ a[2] < dst[2] + n
        from(a) == <<src[1], a[2] - dst[2] + src[2]>>
    IN With([copied \in {{<<dst[1], a[2] - src[2] + dst[2]>> :
                             a \in {b \in DOMAIN h.mem : inSrc(b)}}} |->
       [h EXCEPT !.mem = [a \in {b \in DOMAIN h.mem : ~inDst(b)} \cup copied |->
                             IF a \in copied THEN h.mem[from(a)] ELSE h.mem[a]],
                 !.wild = @ \/ (n > 0 /\ ~InRegion(h, dst, n))]])

\* copySize is the old block's size, header and footer included, capped
\* by the requested size
CopySize(h, ptr, size) ==
    With([csz \in {GET_SIZE(h, HDRP(ptr))} |->
    IF csz < 0 \/ size < csz THEN size ELSE csz])

\* r = NULL stands for the exit(1) taken when mm_malloc fails
mm_realloc(h, ptr, size) ==
    With([m \in {mm_malloc(h, size)} |->
    IF m.r = NULL
    THEN [h |-> m.h, r |-> NULL, copySize |-> 0]
    ELSE With([copySize \in {CopySize(m.h, ptr, size)} |->
         [h |-> mm_free(memcpy(m.h, m.r, ptr, copySize), ptr),
          r |-> m.r, copySize |-> copySize]])])

\* mm_init from the extension by the initial chunk on
InitChunk(h) ==
    With([e \in {extend_heap(h, CHUNKSIZE \div WSIZE)} |->
    IF e.r = NULL THEN [h |-> e.h, r |-> -1]
    ELSE With([h9 \in {SETCLS(e.h, 6, PAddS(e.h.heap_listp, 8))} |->
         With([h10 \in {PUT(h9, CLS(h9, 6), 0)} |->
         With([h11 \in {PUT(h10, PAddS(CLS(h10, 6), 4), 0)} |->
         [h |-> h11, r |-> 0]])])])])

\* mm_init from the creation of the empty heap on
InitHeap(h) ==
    With([s2 \in {mem_sbrk(h, 4 * WSIZE)} |->
    With([h3 \in {[s2.h EXCEPT !.heap_listp = s2.r]} |->
    IF s2.r = NULL THEN [h |-> h3, r |-> -1]
    ELSE With([h4 \in {PUT(h3, h3.heap_listp, 0)} |->
         With([h5 \in {PUT(h4, PAddS(h4.heap_listp, WSIZE), PACK(OVERHEAD, 1))} |->
         With([h6 \in {PUT(h5, PAddS(h5.heap_listp, DSIZE), PACK(OVERHEAD, 1))} |->
         With([h7 \in {PUT(h6, PAddS(h6.heap_listp, WSIZE + DSIZE), PACK(0, 1))} |->
         InitChunk([h7 EXCEPT !.heap_listp = PAddS(@, DSIZE)])])])])])])])

\* ptr_classes[0] = NULL; ... ptr_classes[i] = NULL;
RECURSIVE ClearSlots(_, _)
ClearSlots(h, i) ==
    IF i < 0 THEN h ELSE SETCLS(ClearSlots(h, i - 1), i, NULL)

mm_init(h0) ==
    With([s1 \in {mem_sbrk(h0, 7 * DSIZE)} |->
    With([h1 \in {[s1.h EXCEPT !.ptr_classes = s1.r]} |->
    IF s1.r = NULL THEN [h |-> h1, r |-> -1]
    ELSE InitHeap(ClearSlots(h1, 5))])])

\* ---- the program and its caller as a state machine ----
VARIABLES mem, cls, brk, cap, ptr_classes, heap_listp, wild,
          phase, live, ret, nops, snap

vars == <<mem, cls, brk, cap, ptr_classes, heap_listp, wild,
          phase, live, ret, nops, snap>>

\* what the host memory under the class table may hold before mm_init
HostGarbage == {NULL, P(HeapLo + 72 + CHUNKSIZE - DSIZE)}

H(j) == [mem |-> mem, cls |-> cls, brk |-> brk, cap |-> cap,
         ptr_classes |-> ptr_classes, heap_listp |-> heap_listp,
         wild |-> FALSE, junk |-> j]

\* the sequence of blocks <<payload, size, alloc>> met by stepping with
\* NEXT_BLKP from the first block until a header of size 0
MaxWalk == MaxListOps + LifoBlocks
RECURSIVE WalkFrom(_, _, _)
WalkFrom(h, bp, fuel) ==
    IF fuel = 0 \/ HDRP(bp) \notin DOMAIN h.mem \/ GET_SIZE(h, HDRP(bp)) <= 0
    THEN <<>>
    ELSE <<[bp |-> bp, size |-> GET_SIZE(h, HDRP(bp)), alloc |-> GET_ALLOC(h, HDRP(bp))]>>
         \o WalkFrom(h, NEXT_BLKP(h, bp), fuel - 1)

Blocks(h) == WalkFrom(h, PAddS(h.heap_listp, DSIZE), MaxWalk)

RECURSIVE SumFree(_)
SumFree(bs) ==
    IF bs = <<>> THEN 0
    ELSE (IF Head(bs).alloc = 0 THEN Head(bs).size ELSE 0) + SumFree(Tail(bs))

\* the walk ends exactly at the epilogue header in the last word of the
\* region and every block on the way is well formed
TiledBy(h, bs, end) ==
       /\ h.heap_listp = P(HeapLo + 7 * DSIZE + DSIZE)
       /\ HDRP(h.heap_listp) \in DOMAIN h.mem /\ h.heap_listp \in DOMAIN h.mem
       /\ GET(h, HDRP(h.heap_listp)) = PACK(DSIZE, 1)
       /\ GET(h, h.heap_listp) = PACK(DSIZE, 1)
       /\ end = P(h.brk)
       /\ HDRP(end) \in DOMAIN h.mem
       /\ GET(h, HDRP(end)) = PACK(0, 1)
       /\ \A i \in 1..Len(bs) :
            /\ bs[i].size % 8 = 0 /\ bs[i].size >= 2 * DSIZE
            /\ FTRP(h, bs[i].bp) \in DOMAIN h.mem
            /\ GET(h, FTRP(h, bs[i].bp)) = GET(h, HDRP(bs[i].bp))

Tiled(h) ==
    With([bs \in {Blocks(h)} |->
    TiledBy(h, bs, IF bs = <<>> THEN PAddS(h.heap_listp, DSIZE)
                   ELSE PAddU(bs[Len(bs)].bp, bs[Len(bs)].size))])

NoAdjacentFree(h) ==
    With([bs \in {Blocks(h)} |->
    \A i \in 1..(Len(bs) - 1) : ~(bs[i].alloc = 0 /\ bs[i + 1].alloc = 0)])

\* the payloads met by following succ_offset from p until an offset of 0
RECURSIVE ListFrom(_, _, _)
ListFrom(h, p, fuel) ==
    IF fuel = 0 THEN <<>>
    ELSE <<p>> \o (IF GET(h, PAddS(p, WSIZE)) = 0 THEN <<>>
                   ELSE ListFrom(h, SUCC(h, p), fuel - 1))

\* the members of bucket i, head first
Bucket(h, i) == IF CLS(h, i) = NULL THEN <<>> ELSE ListFrom(h, CLS(h, i), MaxWalk)

Range(s) == {s[k] : k \in 1..Len(s)}
FreeBlocks(h) == {b \in Range(Blocks(h)) : b.alloc = 0}

Init ==
    /\ mem = <<>>
    /\ \E g \in HostGarbage : cls = [i \in 0..(NCLASSES - 1) |-> g]
    /\ brk = HeapLo
    /\ cap \in Capacities
    /\ ptr_classes = NULL
    /\ heap_listp = NULL
    /\ wild = FALSE
    /\ phase = "start"
    /\ live = <<>>
    /\ ret = [op |-> "none", p |-> NULL, n |-> 0, r |-> NULL, rc |-> 0, fresh |-> FALSE]
    /\ nops = 0
    /\ snap = [blocks |-> <<>>, brk |-> HeapLo, tiled |-> FALSE]

\* the state the call leaves; a call that stored outside the region may
\* instead have been killed by the host
Commit(h, ph) ==
    /\ mem' = h.mem /\ cls' = h.cls /\ brk' = h.brk
    /\ ptr_classes' = h.ptr_classes /\ heap_listp' = h.heap_listp
    /\ wild' = h.wild
    /\ \/ phase' = ph
       \/ h.wild /\ phase' = "crashed"
    /\ UNCHANGED cap

Snapshot(h) == [blocks |-> Blocks(h), brk |-> h.brk,
                tiled |-> Tiled(h) /\ NoAdjacentFree(h)]

DoInit ==
    /\ phase = "start"
    /\ \E j \in Junk :
         (\E c \in {mm_init(H(j))} :
            /\ Commit(c.h, IF c.r = 0 THEN "ready" ELSE "failed")
            /\ ret' = [op |-> "init", p |-> NULL, n |-> 0, r |-> NULL, rc |-> c.r, fresh |-> FALSE])
    /\ UNCHANGED <<live, nops, snap>>

Remove(s, i) == [k \in 1..(Len(s) - 1) |-> IF k < i THEN s[k] ELSE s[k + 1]]

\* a call of mm_malloc(n) by the caller
CallMalloc(n) ==
    /\ \E j \in Junk :
         (\E c \in {mm_malloc(H(j), n)} :
            /\ Commit(c.h, "ready")
            /\ ret' = [op |-> "malloc", p |-> NULL, n |-> n, r |-> c.r, rc |-> 0, fresh |-> FALSE]
            /\ live' = IF c.r = NULL THEN live ELSE Append(live, [p |-> c.r, n |-> n]))
    /\ snap' = Snapshot(H(0))
    /\ nops' = nops + 1

Malloc(n) == phase = "ready" /\ nops < MaxOps /\ CallMalloc(n)

\* a call of mm_free on the live allocation i
CallFree(i) ==
    /\ \E j \in Junk :
         /\ Commit(mm_free(H(j), live[i].p), "ready")
         /\ ret' = [op |-> "free", p |-> live[i].p, n |-> live[i].n, r |-> NULL, rc |-> 0,
                    fresh |-> (ret.op = "malloc" /\ i = Len(live) /\ ret.r = live[i].p)]
    /\ live' = Remove(live, i)
    /\ nops' = nops + 1
    /\ UNCHANGED snap

Free(i) == phase = "ready" /\ nops < MaxOps /\ CallFree(i)

FreeNull ==
    /\ phase = "ready" /\ nops < MaxOps
    /\ \E j \in Junk :
         /\ Commit(mm_free(H(j), NULL), "ready")
         /\ ret' = [op |-> "free", p |-> NULL, n |-> 0, r |-> NULL, rc |-> 0, fresh |-> FALSE]
    /\ nops' = nops + 1
    /\ UNCHANGED <<live, snap>>

Realloc(i, n) ==
    /\ phase = "ready" /\ nops < MaxOps
    /\ \E j \in Junk :
         (\E c \in {mm_realloc(H(j), live[i].p, n)} :
            /\ Commit(c.h, IF c.r = NULL THEN "aborted" ELSE "ready")
            /\ ret' = [op |-> "realloc", p |-> live[i].p, n |-> n, r |-> c.r,
                       rc |-> c.copySize, fresh |-> FALSE]
            /\ live' = IF c.r = NULL THEN live
                       ELSE Append(Remove(live, i), [p |-> c.r, n |-> n]))
    /\ nops' = nops + 1
    /\ UNCHANGED snap

\* the caller stores a word at byte offset k of a live allocation
WriteOffsets == {0, 4}
Write(i, k, d) ==
    /\ phase = "ready" /\ nops < MaxOps
    /\ k + WSIZE <= live[i].n
    /\ Commit([PUT(H(0), PAddS(live[i].p, k), d) EXCEPT !.wild = FALSE], "ready")
    /\ ret' = [op |-> "write", p |-> live[i].p, n |-> k, r |-> NULL, rc |-> d, fresh |-> FALSE]
    /\ nops' = nops + 1
    /\ UNCHANGED <<live, snap>>

Next ==
    \/ DoInit
    \/ \E n \in Sizes \cup {0} : Malloc(n)
    \/ \E i \in 1..Len(live) : Free(i)
    \/ FreeNull
    \/ \E i \in 1..Len(live), n \in Sizes \cup {0} : Realloc(i, n)
    \/ \E i \in 1..Len(live), k \in WriteOffsets, d \in DataVals : Write(i, k, d)

Spec == Init /\ [][Next]_vars

\* the same program on host memory that reads as zero before mm_init
InitZeroed == Init /\ cls[NCLASSES - 1] = NULL
SpecZeroed == InitZeroed /\ [][Next]_vars

\* ---- longer runs of allocate and free alone on a host that never ----
\* ---- refuses, with a probe of find_fit                             ----
ListMalloc(n) == phase = "ready" /\ nops < MaxListOps /\ CallMalloc(n)

ListFree(i) == phase = "ready" /\ nops < MaxListOps /\ CallFree(i)

\* arguments of find_fit: the uint32_t asize that mm_malloc derives from
\* requests of 8, 100, 200, 20000 and 3 * 2^30 - 8 bytes, zero extended to
\* size_t (3 * 2^30 = 2^32 - 2^30)
FitSizes == {SZ(16), SZ(112), SZ(208), SZ(20008), <<1, -Half>>}

\* find_fit(asize) on the current heap; it stores nothing
Fit(asize) ==
    /\ phase = "ready"
    /\ \E j \in Junk :
         ret' = [op |-> "fit", p |-> asize, n |-> 0, r |-> find_fit(H(j), asize),
                 rc |-> 0, fresh |-> FALSE]
    /\ phase' = "probed"
    /\ UNCHANGED <<mem, cls, brk, cap, ptr_classes, heap_listp, wild, live, nops, snap>>

NextLists ==
    \/ DoInit
    \/ \E n \in ListSizes : ListMalloc(n)
    \/ \E i \in 1..Len(live) : ListFree(i)
    \/ \E a \in FitSizes : Fit(a)

InitLists == Init /\ cap = 72 + 4 * CHUNKSIZE
SpecLists == InitLists /\ [][NextLists]_vars

\* ---- the run of the spec's example: ten allocate(1000) calls, then ----
\* ---- frees of blocks at even positions in any order                ----
LifoSize == 1000
FirstBlock == HeapLo + 7 * DSIZE + 4 * WSIZE

LifoMalloc ==
    /\ phase = "ready" /\ nops = Len(live) /\ Len(live) < LifoBlocks
    /\ CallMalloc(LifoSize)

LifoFree(i) ==
    /\ phase = "ready" /\ nops >= LifoBlocks
    /\ ((live[i].p[2] - FirstBlock) \div AdjustedSize(LifoSize)) % 2 = 0
    /\ CallFree(i)

NextLifo ==
    \/ DoInit
    \/ LifoMalloc
    \/ \E i \in 1..Len(live) : LifoFree(i)

InitLifo == Init /\ cap = 72 + 4 * CHUNKSIZE
SpecLifo == InitLifo /\ [][NextLifo]_vars

\* ---- properties ----
Ready == phase = "ready"
Hs == H(0)
Returned == Ready /\ ret.op \in {"malloc", "realloc"} /\ ret.r # NULL

Disjoint(a, b) ==
    \/ a.p[1] # b.p[1]
    \/ a.p[2] + a.n <= b.p[2]
    \/ b.p[2] + b.n <= a.p[2]

\* C1: any two distinct live allocations occupy disjoint byte ranges
\* [p, p+m) and [q, q+n).
C1_NoOverlap ==
    Ready => \A i, j \in 1..Len(live) : i < j => Disjoint(live[i], live[j])

\* C2: the block at an address returned by allocate(size), size > 0, is
\* marked allocated, has size at least asize and lies, header to footer,
\* inside the region before the epilogue header.
C2_Placed ==
    (Returned /\ ret.op = "malloc") =>
        LET bsize == GET_SIZE(Hs, HDRP(ret.r))
        IN /\ HDRP(ret.r) \in DOMAIN mem
           /\ GET_ALLOC(Hs, HDRP(ret.r)) = 1
           /\ bsize >= AdjustedSize(ret.n)
           /\ InRegion(Hs, HDRP(ret.r), bsize)
           /\ ret.r[2] + bsize <= brk

\* C3: every returned address is a multiple of 8, lies strictly after the
\* prologue and strictly before the epilogue header, past the class table.
C3_Aligned ==
    Returned =>
        /\ ret.r[1] = 0
        /\ ret.r[2] % 8 = 0
        /\ ret.r[2] > heap_listp[2]
        /\ ret.r[2] >= HeapLo + 7 * DSIZE + 4 * WSIZE
        /\ ret.r[2] < brk - WSIZE

\* C4: when find_fit misses and the host refuses the extension, allocate
\* returns none and leaves the class table, every word of the region and
\* the region bounds as they were.
C4_FailedAllocate ==
    [][(Ready /\ nops' = nops + 1 /\ ret'.op = "malloc" /\ ret'.n > 0
          /\ (\A j \in Junk : find_fit(H(j), SZ(AdjustedSize(ret'.n))) = NULL)
          /\ brk + MIN(AdjustedSize(ret'.n), CHUNKSIZE) > HeapLo + cap)
        => (/\ ret'.r = NULL /\ phase' = "ready" /\ ~wild'
            /\ mem' = mem /\ cls' = cls /\ brk' = brk
            /\ ptr_classes' = ptr_classes /\ heap_listp' = heap_listp
            /\ live' = live)]_vars

C4_Witness ==
    Ready /\ ret.op = "malloc" /\ ret.n > 0 /\ ret.r = NULL /\ Tiled(Hs)

\* C5: free(none) returns normally and stores nothing.
C5_FreeNone ==
    (ret.op = "free" /\ ret.p = NULL) => (Ready /\ ~wild)

\* C6: init returns -1 whenever one of its three host requests is refused,
\* without storing through the failed result.
C6_InitRefused ==
    (ret.op = "init" /\ cap < 7 * DSIZE + 4 * WSIZE + CHUNKSIZE)
        => (phase = "failed" /\ ret.rc = -1 /\ ~wild)

\* C7: after a successful reallocate(p, m) the result q is live and differs
\* from p, the old block is free, and the first min(m, old payload size)
\* bytes at q are those that were at p before the call.
C7_ReallocKeeps ==
    [][(Ready /\ nops' = nops + 1 /\ ret'.op = "realloc" /\ phase' = "ready")
        => LET p == ret'.p
               q == ret'.r
               old == GET_SIZE(Hs, HDRP(p)) - OVERHEAD
               len == IF ret'.n < old THEN ret'.n ELSE old
           IN /\ q # p
              /\ \E i \in 1..Len(live') : live'[i].p = q
              /\ HDRP(p) \in DOMAIN mem' /\ mem'[HDRP(p)] % 2 = 0
              /\ \A a \in DOMAIN mem :
                    (a[1] = p[1] /\ a[2] >= p[2] /\ a[2] < p[2] + len)
                    => LET b == <<q[1], a[2] - p[2] + q[2]>>
                       IN b \in DOMAIN mem' /\ mem'[b] = mem[a]]_vars

Shape(bs) == [i \in 1..Len(bs) |-> <<bs[i].size, bs[i].alloc>>]

\* C8: on a well-formed heap free(allocate(n)) restores the sequence of
\* blocks when the region was not extended, and otherwise raises the total
\* of free bytes by exactly the bytes obtained from the host.
C8_FreeAllocate ==
    (Ready /\ ret.op = "free" /\ ret.fresh /\ snap.tiled) =>
        IF brk = snap.brk
        THEN Shape(Blocks(Hs)) = Shape(snap.blocks)
        ELSE /\ Tiled(Hs)
             /\ SumFree(Blocks(Hs)) = SumFree(snap.blocks) + (brk - snap.brk)

C8_Witness ==
    /\ Ready /\ ret.op = "free" /\ ret.fresh /\ snap.tiled /\ brk = snap.brk
    /\ Len(Blocks(Hs)) >= 2

\* C9: between public calls the blocks tile the area between prologue and
\* epilogue, each with header equal to footer and a size that is a multiple
\* of 8 and at least 16, and prologue and epilogue are present.
C9_Tiled == Ready => Tiled(Hs)

\* C10: between public calls no two blocks adjacent in address order are
\* both free.
C10_Coalesced == Ready => NoAdjacentFree(Hs)

\* C11: between public calls the blocks reached from the seven class-table
\* heads by succ_offset are exactly the free blocks of the tiling, each once,
\* each in the bucket selected by its size.
C11_ListsAreFreeBlocks ==
    Ready =>
        /\ \A i \in 0..(NCLASSES - 1) : \A k \in 1..Len(Bucket(Hs, i)) :
              \E b \in FreeBlocks(Hs) :
                 b.bp = Bucket(Hs, i)[k] /\ ClassOf(b.size) = i
        /\ \A b \in FreeBlocks(Hs) :
              Cardinality({<<i, k>> \in (0..(NCLASSES - 1)) \X (1..MaxWalk) :
                             k <= Len(Bucket(Hs, i)) /\ Bucket(Hs, i)[k] = b.bp}) = 1

FreePayloads(h) == {b.bp : b \in FreeBlocks(h)}

\* C12: between public calls every class-table pointer and every non-zero
\* pred_offset or succ_offset in a free block points to a free block of the
\* region, and the head of every bucket has pred_offset 0.
C12_LinksPointToFree ==
    Ready =>
        /\ \A i \in 0..(NCLASSES - 1) : CLS(Hs, i) # NULL =>
              /\ CLS(Hs, i) \in FreePayloads(Hs)
              /\ GET(Hs, CLS(Hs, i)) = 0
        /\ \A bp \in FreePayloads(Hs) :
              /\ GET(Hs, bp) # 0 => PRED(Hs, bp) \in FreePayloads(Hs)
              /\ GET(Hs, PAddS(bp, WSIZE)) # 0 => SUCC(Hs, bp) \in FreePayloads(Hs)

\* the members of all seven buckets, bucket 0 first
RECURSIVE AllBuckets(_, _)
AllBuckets(h, i) ==
    IF i = NCLASSES THEN <<>> ELSE Bucket(h, i) \o AllBuckets(h, i + 1)

\* C13: whenever no allocation is live the area between prologue and
\* epilogue is one free block, of the size obtained from the host by heap
\* extensions, and that block is the only member of any bucket.
C13_AllFreedOneBlock ==
    (Ready /\ live = <<>>) =>
        /\ Tiled(Hs)
        /\ Len(Blocks(Hs)) = 1
        /\ Blocks(Hs)[1].alloc = 0
        /\ Blocks(Hs)[1].size = brk - (HeapLo + 7 * DSIZE + 4 * WSIZE)
        /\ AllBuckets(Hs, 0) = <<Blocks(Hs)[1].bp>>

\* the state after mm_init, a = mm_malloc(100), mm_free(a)
AllocFree100 ==
    Ready /\ nops = 2 /\ ret.op = "free" /\ ret.fresh /\ ret.n = 100

\* a is non-zero and 8-byte aligned and the free block at a is followed by
\* the epilogue
AlignedBeforeEpilogue(a) ==
    /\ a # NULL /\ a[1] = 0 /\ a[2] % 8 = 0
    /\ GET_ALLOC(Hs, HDRP(a)) = 0
    /\ NEXT_BLKP(Hs, a) = P(brk)
    /\ GET(Hs, HDRP(NEXT_BLKP(Hs, a))) = PACK(0, 1)

\* C14 as stated: after mm_init, a = mm_malloc(100), mm_free(a), a is
\* non-zero and 8-byte aligned, a heads bucket 0 and the block after the
\* free block at a is the epilogue.
C14_Bucket0 ==
    AllocFree100 => (AlignedBeforeEpilogue(ret.p) /\ CLS(Hs, 0) = ret.p)

\* C14 amended: the freed block merges with the free remainder behind it, so
\* a heads bucket 6 (the bucket of the merged size) and bucket 0 is empty.
C14_Bucket6 ==
    AllocFree100 =>
        /\ AlignedBeforeEpilogue(ret.p)
        /\ Bucket(Hs, NCLASSES - 1) = <<ret.p>>
        /\ CLS(Hs, 0) = NULL
        /\ GET_SIZE(Hs, HDRP(ret.p)) = CHUNKSIZE

C14_Witness == AllocFree100 /\ CLS(Hs, NCLASSES - 1) = ret.p /\ Tiled(Hs)

\* size >= asize for a block size 0 <= size < 2^31 and a size_t asize
SizeCovers(size, asize) == asize[1] = 0 /\ asize[2] >= 0 /\ size >= asize[2]

\* the buckets from that of asize on whose head exists and is large enough
FitCandidates(asize) ==
    {j \in FitClassOf(asize)..(NCLASSES - 1) :
        CLS(Hs, j) # NULL /\ SizeCovers(GET_SIZE(Hs, HDRP(CLS(Hs, j))), asize)}

\* C15: find_fit(asize) returns the head of the lowest-indexed bucket from
\* that of asize on whose head exists and has size >= asize, or none when
\* there is no such bucket; what it returns is free and not smaller than
\* asize.
C15_FindFit ==
    (ret.op = "fit") =>
        IF FitCandidates(ret.p) = {} THEN ret.r = NULL
        ELSE /\ \E j \in FitCandidates(ret.p) :
                  /\ ret.r = CLS(Hs, j)
                  /\ \A k \in FitCandidates(ret.p) : j <= k
             /\ GET_ALLOC(Hs, HDRP(ret.r)) = 0
             /\ SizeCovers(GET_SIZE(Hs, HDRP(ret.r)), ret.p)

\* the allocator's state after the step
Hnext == [mem |-> mem', cls |-> cls', brk |-> brk', cap |-> cap',
          ptr_classes |-> ptr_classes', heap_listp |-> heap_listp',
          wild |-> FALSE, junk |-> 0]

\* the heap invariants of the spec: tiling, no two adjacent free blocks,
\* every bucket list holding free blocks of its size range, every free
\* block in exactly one list
WellFormed(h) ==
    /\ Tiled(h) /\ NoAdjacentFree(h)
    /\ \E fr \in {FreeBlocks(h)} :
          /\ \A i \in 0..(NCLASSES - 1) : \E bu \in {Bucket(h, i)} :
                \A k \in 1..Len(bu) :
                   \E b \in fr : b.bp = bu[k] /\ ClassOf(b.size) = i
          /\ \E all \in {AllBuckets(h, 0)} :
                /\ Len(all) = Cardinality(fr)
                /\ Range(all) = {b.bp : b \in fr}

Without(s, gone) == SelectSeq(s, LAMBDA p : p \notin gone)
IndexOf(bs, bp) == CHOOSE k \in 1..Len(bs) : bs[k].bp = bp

\* what coalesce has to leave, bs being the blocks before the call and k
\* the index of the block whose allocated bit was cleared
CoalescePost(bs, k, r) ==
    LET prevFree == k > 1 /\ bs[k - 1].alloc = 0
        nextFree == k < Len(bs) /\ bs[k + 1].alloc = 0
        merged == bs[k].size + (IF prevFree THEN bs[k - 1].size ELSE 0)
                             + (IF nextFree THEN bs[k + 1].size ELSE 0)
        gone == (IF prevFree THEN {bs[k - 1].bp} ELSE {})
                   \cup (IF nextFree THEN {bs[k + 1].bp} ELSE {})
    IN /\ r = IF prevFree THEN bs[k - 1].bp ELSE bs[k].bp
       /\ GET(Hnext, HDRP(r)) = PACK(merged, 0)
       /\ GET(Hnext, FTRP(Hnext, r)) = PACK(merged, 0)
       /\ \A i \in 0..(NCLASSES - 1) :
             Bucket(Hnext, i) = (IF i = ClassOf(merged) THEN <<r>> ELSE <<>>)
                                   \o Without(Bucket(Hs, i), gone)

\* coalesce as mm_free calls it on the block bp of the current heap
FreeCoalesce(bp) ==
    coalesce(PUT(PUT(Hs, HDRP(bp), PACK(GET_SIZE(Hs, HDRP(bp)), 0)),
                 FTRP(Hs, bp), PACK(GET_SIZE(Hs, HDRP(bp)), 0)), bp)

\* C16: on a well-formed heap coalesce(b), b just marked free and in no
\* list, returns prev(b) if the previous block was free and b otherwise;
\* the returned block is free with equal header and footer, of the size of b
\* plus its free neighbours, at the head of the bucket of the merged size,
\* and the merged neighbours are gone from their buckets, whose other
\* members keep their order.
C16_Coalesce ==
    [][(Ready /\ nops' = nops + 1 /\ ret'.op = "free" /\ ret'.p # NULL
          /\ phase' = "ready" /\ WellFormed(Hs))
        => \E c \in {FreeCoalesce(ret'.p)}, bs \in {Blocks(Hs)} :
              /\ c.h.mem = mem'
              /\ c.h.cls = cls'
              /\ CoalescePost(bs, IndexOf(bs, ret'.p), c.r)]_vars

\* a block between two free neighbours has been freed: it now lies inside
\* a free block that starts before it and ends after it, which heads a
\* bucket that has a second member
C16_Witness ==
    /\ Ready /\ ret.op = "free" /\ ret.p # NULL /\ WellFormed(Hs)
    /\ \E b \in FreeBlocks(Hs) :
          /\ b.bp[2] < ret.p[2]
          /\ ret.p[2] + AdjustedSize(ret.n) < b.bp[2] + b.size
          /\ CLS(Hs, ClassOf(b.size)) = b.bp
          /\ Len(Bucket(Hs, ClassOf(b.size))) >= 2

\* the heap and the block that mm_malloc(n) hands to place: the fit found
\* on the current heap or the block obtained by extending it
PlaceInput(n) ==
    LET asize == AdjustedSize(n)
        fit == find_fit(Hs, SZ(asize))
        e == extend_heap(Hs, MIN(asize, CHUNKSIZE) \div WSIZE)
    IN IF fit # NULL THEN [h |-> Hs, b |-> fit] ELSE [h |-> e.h, b |-> e.r]

\* the link words (pred_offset, succ_offset) of the members of bucket i
LinkWords(h, i) ==
    UNION {{Bucket(h, i)[k], PAddS(Bucket(h, i)[k], WSIZE)} : k \in 1..Len(Bucket(h, i))}

\* what place(b, asize) has to leave, h being the heap before the call, b
\* a free block of size c >= asize of it
PlacePost(h, b, c, asize) ==
    LET split == c - asize >= 2 * DSIZE
        rest == PAddS(b, asize)
        touched == {ClassOf(c)} \cup (IF split THEN {ClassOf(c - asize)} ELSE {})
    IN /\ IF split
          THEN /\ GET(Hnext, HDRP(b)) = PACK(asize, 1)
               /\ GET(Hnext, PAddS(b, asize - DSIZE)) = PACK(asize, 1)
               /\ GET(Hnext, HDRP(rest)) = PACK(c - asize, 0)
               /\ GET(Hnext, PAddS(b, c - DSIZE)) = PACK(c - asize, 0)
               /\ CLS(Hnext, ClassOf(c - asize)) = rest
          ELSE /\ GET(Hnext, HDRP(b)) = PACK(c, 1)
               /\ GET(Hnext, PAddS(b, c - DSIZE)) = PACK(c, 1)
       /\ \A i \in 0..(NCLASSES - 1) :
             Bucket(Hnext, i) =
                (IF split /\ i = ClassOf(c - asize) THEN <<rest>> ELSE <<>>)
                   \o Without(Bucket(h, i), {b})
       /\ \A i \in (0..(NCLASSES - 1)) \ touched : CLS(Hnext, i) = CLS(h, i)
       /\ DOMAIN h.mem \subseteq DOMAIN mem'
       /\ \A a \in DOMAIN mem' :
             \/ a \in DOMAIN h.mem /\ mem'[a] = h.mem[a]
             \/ a[1] = b[1] /\ a[2] >= b[2] - WSIZE /\ a[2] < b[2] + c - WSIZE
             \/ \E i \in touched : a \in LinkWords(h, i)

\* C17: place(b, asize) on a free block b of size c >= asize of a
\* well-formed heap removes b from the bucket of c;
\* if c - asize >= 16 it leaves an allocated block of size
\* asize at b followed by a free block of size c - asize that heads the
\* bucket of c - asize, otherwise the whole block allocated and nothing
\* inserted; every header, footer and payload outside [b, b+c) and every
\* bucket other than those of c and c - asize stay as they were.
C17_Place ==
    [][(Ready /\ nops' = nops + 1 /\ ret'.op = "malloc" /\ ret'.r # NULL
          /\ phase' = "ready")
        => \E inp \in {PlaceInput(ret'.n)}, asize \in {AdjustedSize(ret'.n)} :
              (/\ inp.b = ret'.r
               /\ WellFormed(inp.h)
               /\ GET_ALLOC(inp.h, HDRP(inp.b)) = 0
               /\ GET_SIZE(inp.h, HDRP(inp.b)) >= asize)
              => /\ place(inp.h, inp.b, asize).mem = mem'
                 /\ place(inp.h, inp.b, asize).cls = cls'
                 /\ PlacePost(inp.h, inp.b, GET_SIZE(inp.h, HDRP(inp.b)), asize)]_vars

\* the last call left an allocated block of exactly the adjusted size
\* followed by a free block that heads a bucket with a second member
C17_Witness ==
    /\ Ready /\ ret.op = "malloc" /\ ret.r # NULL /\ WellFormed(Hs)
    /\ GET_SIZE(Hs, HDRP(ret.r)) = AdjustedSize(ret.n)
    /\ \E b \in FreeBlocks(Hs) :
          /\ b.bp = NEXT_BLKP(Hs, ret.r)
          /\ Len(Bucket(Hs, ClassOf(b.size))) >= 2
          /\ CLS(Hs, ClassOf(b.size)) = b.bp

\* C18: append(b, s) makes b the head of the bucket selected by s with the
\* former members following in unchanged order and leaves the other six
\* buckets unchanged: a block freed while both its address neighbours are
\* allocated goes in front of the blocks of its bucket freed before it.
C18_AppendLifo ==
    [][(Ready /\ nops' = nops + 1 /\ ret'.op = "free" /\ ret'.p # NULL
          /\ phase' = "ready"
          /\ GET_ALLOC(Hs, HDRP(NEXT_BLKP(Hs, ret'.p))) = 1
          /\ GET_ALLOC(Hs, FTRP(Hs, PREV_BLKP(Hs, ret'.p))) = 1)
        => \E c \in {ClassOf(GET_SIZE(Hs, HDRP(ret'.p)))} :
              /\ append_to_class(Hs, ret'.p, GET_SIZE(Hs, HDRP(ret'.p))).cls = cls'
              /\ Bucket(Hnext, c) = <<ret'.p>> \o Bucket(Hs, c)
              /\ \A i \in (0..(NCLASSES - 1)) \ {c} :
                    /\ CLS(Hnext, i) = CLS(Hs, i)
                    /\ Bucket(Hnext, i) = Bucket(Hs, i)]_vars

\* the allocation a_k of the example
ExampleBlock(k) == P(FirstBlock + k * AdjustedSize(LifoSize))

\* the example: after the frees of a0, a2, a4, a6, a8 bucket 1 lists
\* a8, a6, a4, a2, a0
C18_Witness ==
    /\ Ready /\ ret.op = "free" /\ Len(live) = LifoBlocks - 5
    /\ Bucket(Hs, 1) = <<ExampleBlock(8), ExampleBlock(6), ExampleBlock(4),
                         ExampleBlock(2), ExampleBlock(0)>>

\* C19: reallocate(ptr, size) copies exactly min(size, size of the old
\* block - 8) bytes, so it reads neither the old block's footer nor the
\* header of the block behind it.
C19_ReallocCopySize ==
    [][(Ready /\ nops' = nops + 1 /\ ret'.op = "realloc" /\ ret'.r # NULL)
        => ret'.rc = IF ret'.n < GET_SIZE(Hs, HDRP(ret'.p)) - OVERHEAD
                     THEN ret'.n
                     ELSE GET_SIZE(Hs, HDRP(ret'.p)) - OVERHEAD]_vars

\* mm_init on the same host with none in all seven slots of the class table
CleanInit == mm_init([Hs EXCEPT !.cls = [i \in 0..(NCLASSES - 1) |-> NULL]])

\* C20: init writes none into all seven class-table slots before its first
\* heap extension, so whatever the host memory held, the append made during
\* that extension stores through no left-over slot value: init leaves the
\* memory it leaves on a host whose memory reads as zero.
C20_InitClearsSlots ==
    [][(phase = "start" /\ ret'.op = "init" /\ phase' = "ready")
        => /\ mem' = CleanInit.h.mem
           /\ cls' = CleanInit.h.cls]_vars

====
